---- MODULE Spec2Model ----
(***************************************************************************)
(* apg.py (Audio Program Generator): main, gen_speech and mix.             *)
(*                                                                         *)
(* Text is a sequence of one-character strings.  An AudioSegment is a      *)
(* sequence of chunks; a chunk is `ms` milliseconds of audio taken from    *)
(* offset `from` of a source (the clip of a phrase, generated silence, or  *)
(* the background sound file).  len(segment) is the sum of the chunks' ms. *)
(***************************************************************************)
EXTENDS Integers, Sequences, FiniteSets, TLC

VARIABLES
    runs,          \* number of processes started so far against this cwd
    pc,            \* position of the running process in main / gen_speech
    phrase_file,   \* f.readlines(): the lines of <phrase_file>
    mode,          \* "plain" or "mix" (args["mix"])
    num_rows,      \* gen_speech: num_rows
    line,          \* gen_speech: line
    phrase,        \* gen_speech: phrase
    interval,      \* gen_speech: interval
    speech,        \* gen_speech: speech (the clip loaded at line 147)
    combined,      \* gen_speech: combined (the timeline)
    cacheDir,      \* whether <cwd>/.cache exists
    cache,         \* <cwd>/.cache/<phrase>.mp3: "absent", "whole" or "partial"
    stdout,        \* what the process printed on its error paths
    exitStatus,    \* -1 while running, else the process's exit status
    error,         \* "none", "SystemExit" or the uncaught exception's name
    exports,       \* number of export() calls of this process
    played,        \* whether AudioPlayer(...).play ran in this process
    outDuration,   \* len() of the segment this process exported, -1 if none
    synthCalls,    \* per phrase text: gTTS invocations (line 145), all runs
    synthStored,   \* per phrase text: invocations that created the cache file
    hitSynth,      \* some process called gTTS while the cache file existed
    segment1,      \* mix: segment1
    segment2,      \* mix: segment2
    seg2_atten,    \* mix: seg2_atten
    mixpc,         \* mix: "idle", "called", "normalized", "returned", "raised"
    times,         \* mix: times (0 when the loop branch is not taken)
    segment2_normalized, \* mix: segment2_normalized
    mixed,         \* mix: the returned segment
    cpc,           \* two instances: each one's position in lines 142-147
    cphrase,       \* two instances: the phrase each one is processing
    cspeech,       \* two instances: what each one loaded at line 147
    cerror         \* two instances: the exception that ended each one

mainVars == << runs, pc, phrase_file, mode, num_rows, line, phrase, interval,
               speech, combined, cacheDir, cache, stdout, exitStatus, error,
               exports, played, outDuration, synthCalls, synthStored, hitSynth >>
mixVars  == << segment1, segment2, seg2_atten, mixpc, times,
               segment2_normalized, mixed >>
concVars == << cpc, cphrase, cspeech, cerror >>
vars     == << mainVars, mixVars, concVars >>

----------------------------------------------------------------------------
(* Bounds *)
MaxLines == 2       \* lines in a phrase file
MaxRuns  == 2       \* successive runs against one cache directory
MaxDur   == 5       \* longest segment handed to mix on its own

(* Program constants *)
MsPerSecond == 1000      \* 1000 * int(interval)
DefaultFadeIn == 3000    \* mix(..., fadein=3000, ...)
DefaultFadeOut == 6000   \* mix(..., fadeout=6000)

----------------------------------------------------------------------------
(* Text *)
NL == "\n"
Digits == {"0", "1", "2", "3", "4", "5", "6", "7", "8", "9"}
Whitespace == {" ", NL}

DigitVal(c) ==
    CASE c = "0" -> 0 [] c = "1" -> 1 [] c = "2" -> 2 [] c = "3" -> 3
      [] c = "4" -> 4 [] c = "5" -> 5 [] c = "6" -> 6 [] c = "7" -> 7
      [] c = "8" -> 8 [] c = "9" -> 9

\* str.split(sep): the fields between the separators, always at least one.
RECURSIVE Split(_, _)
Split(s, sep) ==
    IF \A i \in 1..Len(s) : s[i] # sep
    THEN << s >>
    ELSE LET i == CHOOSE j \in 1..Len(s) :
                     s[j] = sep /\ \A k \in 1..(j-1) : s[k] # sep
         IN  << SubSeq(s, 1, i-1) >> \o Split(SubSeq(s, i+1, Len(s)), sep)

\* str.strip() as int() applies it: leading and trailing whitespace removed.
RECURSIVE Strip(_)
Strip(s) ==
    IF s = << >> THEN s
    ELSE IF s[1] \in Whitespace THEN Strip(Tail(s))
    ELSE IF s[Len(s)] \in Whitespace THEN Strip(SubSeq(s, 1, Len(s)-1))
    ELSE s

RECURSIVE DecimalValue(_)
DecimalValue(s) ==
    IF s = << >> THEN 0
    ELSE 10 * DecimalValue(SubSeq(s, 1, Len(s)-1)) + DigitVal(s[Len(s)])

\* int(text): ok = FALSE stands for ValueError.
IntParse(s) ==
    LET t == Strip(s) IN
    IF t # << >> /\ \A i \in 1..Len(t) : t[i] \in Digits
    THEN [ok |-> TRUE, val |-> DecimalValue(t)]
    ELSE [ok |-> FALSE, val |-> 0]

----------------------------------------------------------------------------
(* AudioSegment *)
Chunk(kind, text, from, ms) ==
    [kind |-> kind, text |-> text, from |-> from, ms |-> ms]

EmptySegment == << >>

RECURSIVE Duration(_)
Duration(seg) ==
    IF seg = << >> THEN 0 ELSE seg[1].ms + Duration(Tail(seg))

\* seg[:d]
RECURSIVE Take(_, _)
Take(seg, d) ==
    IF d <= 0 \/ seg = << >> THEN << >>
    ELSE IF seg[1].ms <= d THEN << seg[1] >> \o Take(Tail(seg), d - seg[1].ms)
    ELSE << [seg[1] EXCEPT !.ms = d] >>

\* seg * n
RECURSIVE Repeat(_, _)
Repeat(seg, n) == IF n <= 0 THEN << >> ELSE seg \o Repeat(seg, n - 1)

\* AudioSegment.silent(duration=d)
Silent(d) == IF d <= 0 THEN << >> ELSE << Chunk("silence", << >>, 0, d) >>

\* The clip the synthesis service returns for a text.
ClipMs(text) == 400 * Len(text) + 300
Clip(text) == << Chunk("clip", text, 0, ClipMs(text)) >>
\* What a cache file holds when the save that created it did not finish.
PartialClip(text) == Take(Clip(text), ClipMs(text) \div 2)

Background(d) == IF d <= 0 THEN << >> ELSE << Chunk("bg", << >>, 0, d) >>

----------------------------------------------------------------------------
(* mix(segment1, segment2, seg2_atten, fadein, fadeout) *)

\* What the processed background and the overlay are made of.
Processed(seg, atten, fadein, fadeout) ==
    [seg |-> seg, atten |-> atten, fadein |-> fadein, fadeout |-> fadeout]

\* segment1.overlay(bg): bg is laid under segment1 from position 0 and cut
\* where segment1 ends; the result is as long as segment1.
Overlay(seg1, bg) ==
    [fg |-> seg1, bg |-> Take(bg.seg, Duration(seg1)), atten |-> bg.atten,
     fadein |-> bg.fadein, fadeout |-> bg.fadeout]

NoMix == [fg |-> << >>, bg |-> << >>, atten |-> 0, fadein |-> 0, fadeout |-> 0]

MixedDuration(m) == Duration(m.fg)

\* math.ceil(duration1 / duration2), duration2 > 0
MixTimes(duration1, duration2) == (duration1 + duration2 - 1) \div duration2

\* duration1 / duration2 raises ZeroDivisionError
MixRaises(seg1, seg2) ==
    Duration(seg1) > Duration(seg2) /\ Duration(seg2) = 0

MixLoops(seg1, seg2) == Duration(seg1) > Duration(seg2)

MixNormalized(seg1, seg2) ==
    IF MixLoops(seg1, seg2)
    THEN Take(Repeat(seg2, MixTimes(Duration(seg1), Duration(seg2))),
              Duration(seg1))
    ELSE Take(seg2, Duration(seg1))

MixResult(seg1, seg2, atten, fadein, fadeout) ==
    Overlay(seg1, Processed(MixNormalized(seg1, seg2), atten, fadein, fadeout))

----------------------------------------------------------------------------
(* Inputs *)
T1(a) == << a >>
LineA1     == << "a", ";", "1", NL >>
LineB0     == << "b", ";", "0", NL >>
LineA2     == << "a", ";", "2" >>            \* a last line without newline
LineBlank  == << NL >>
LineNoSemi == << "a", "b", NL >>
LineNoText == << ";", "3", NL >>
LineTwoSemi == << "a", ";", "1", ";", "2", NL >>
LineDecimal == << "a", ";", "1", ".", "5", NL >>

Lines == { LineA1, LineB0, LineA2, LineBlank, LineNoSemi, LineNoText,
           LineTwoSemi, LineDecimal }

\* readlines(): every line but the last ends with a newline.
Files ==
    { f \in UNION { [1..n -> Lines] : n \in 0..MaxLines } :
        \A i \in 1..(Len(f) - 1) : f[i][Len(f[i])] = NL }

\* The phrase texts that reach the cache.
PhraseTexts == { T1("a"), T1("b") }

BgDurations == { 0, 500, 5000 }
Attenuations == { 0, 6 }

----------------------------------------------------------------------------
(* Output of the error paths *)
Msg(t)      == [what |-> "msg", text |-> << >>, note |-> t, num |-> 0]
RawLine(l)  == [what |-> "rawline", text |-> l, note |-> "", num |-> 0]
ExcArgs(t)  == [what |-> "excargs", text |-> << >>, note |-> t, num |-> 0]
FileName    == [what |-> "file", text |-> << >>, note |-> "phrase_file", num |-> 0]
LineNo(n)   == [what |-> "lineno", text |-> << >>, note |-> "", num |-> n]

\* e.args of the ValueError that "phrase, interval = ..." raises
UnpackArgs(n) ==
    IF n < 2 THEN "not enough values to unpack (expected 2, got 1)"
    ELSE "too many values to unpack (expected 2)"

----------------------------------------------------------------------------
(* The process: main and gen_speech *)
NoCounts == [t \in PhraseTexts |-> 0]

MixIdle ==
    /\ segment1 = << >> /\ segment2 = << >> /\ seg2_atten = 0
    /\ mixpc = "idle" /\ times = 0 /\ segment2_normalized = << >>
    /\ mixed = NoMix

Procs == {1, 2}

ConcIdle ==
    /\ cpc = [p \in Procs |-> "idle"]
    /\ cphrase = [p \in Procs |-> << >>]
    /\ cspeech = [p \in Procs |-> "none"]
    /\ cerror = [p \in Procs |-> "none"]

MainIdle ==
    /\ runs = 0 /\ pc = "idle"
    /\ phrase_file = << >> /\ mode = "plain"
    /\ num_rows = 0 /\ line = << >> /\ phrase = << >> /\ interval = << >>
    /\ speech = << >> /\ combined = << >>
    /\ stdout = << >> /\ exitStatus = -1 /\ error = "none"
    /\ exports = 0 /\ played = FALSE /\ outDuration = -1
    /\ synthCalls = NoCounts /\ synthStored = NoCounts /\ hitSynth = FALSE

\* a fresh working directory: no .cache yet
Init ==
    /\ MainIdle
    /\ cacheDir = FALSE
    /\ cache = [t \in PhraseTexts |-> "absent"]
    /\ MixIdle
    /\ ConcIdle

\* sys.exit(): SystemExit with no argument, exit status 0
SysExit ==
    /\ pc' = "exited" /\ error' = "SystemExit" /\ exitStatus' = 0

\* sys.exit("message"): the message goes to stderr, exit status 1
SysExitMsg ==
    /\ pc' = "exited" /\ error' = "SystemExit" /\ exitStatus' = 1

\* an exception nobody catches: traceback, exit status 1
Raise(exc) ==
    /\ pc' = "exited" /\ error' = exc /\ exitStatus' = 1

\* main, lines 157-168: a new process in the same working directory; it ends
\* at once when the phrase file or, in mix mode, the sound file is missing
StartRun ==
    /\ pc \in {"idle", "done", "exited"}
    /\ runs < MaxRuns
    /\ runs' = runs + 1
    /\ \E m \in {"plain", "mix"}, phraseExists \in BOOLEAN,
          soundExists \in BOOLEAN :
         /\ mode' = m
         /\ IF ~phraseExists \/ (m = "mix" /\ ~soundExists)
            THEN SysExitMsg
            ELSE pc' = "open" /\ error' = "none" /\ exitStatus' = -1
    /\ phrase_file' = << >>
    /\ num_rows' = 0 /\ line' = << >> /\ phrase' = << >> /\ interval' = << >>
    /\ speech' = << >> /\ combined' = << >>
    /\ stdout' = << >> /\ exports' = 0 /\ played' = FALSE /\ outDuration' = -1
    /\ UNCHANGED << cacheDir, cache, synthCalls, synthStored, hitSynth,
                    mixVars, concVars >>

\* gen_speech, lines 116-120 (num_lines_in_file raises TypeError on a binary
\* file; otherwise the lines are read)
GenOpen ==
    /\ pc = "open"
    /\ \/ /\ Raise("TypeError")
          /\ UNCHANGED phrase_file
       \/ /\ phrase_file' \in Files
          /\ pc' = "loop"
          /\ UNCHANGED << error, exitStatus >>
    /\ combined' = EmptySegment
    /\ num_rows' = 0
    /\ UNCHANGED << runs, mode, line, phrase, interval, speech,
                    cacheDir, cache, stdout, exports, played, outDuration,
                    synthCalls, synthStored, hitSynth, mixVars, concVars >>

\* gen_speech, lines 122-132
ParseLine ==
    /\ pc = "loop"
    /\ num_rows < Len(phrase_file)
    /\ num_rows' = num_rows + 1
    /\ line' = phrase_file[num_rows + 1]
    /\ LET fields == Split(phrase_file[num_rows + 1], ";") IN
         IF Len(fields) = 2
         THEN /\ phrase' = fields[1]
              /\ interval' = fields[2]
              /\ pc' = "check"
              /\ UNCHANGED << stdout, error, exitStatus >>
         ELSE /\ stdout' = stdout \o
                    << Msg("Error parsing input file as CSV:"),
                       RawLine(phrase_file[num_rows + 1]),
                       ExcArgs(UnpackArgs(Len(fields))) >>
              /\ SysExit
              /\ UNCHANGED << phrase, interval >>
    /\ UNCHANGED << runs, phrase_file, mode, speech, combined, cacheDir, cache,
                    exports, played, outDuration, synthCalls, synthStored,
                    hitSynth, mixVars, concVars >>

\* gen_speech, lines 134-140
CheckPhrase ==
    /\ pc = "check"
    /\ IF Len(phrase) = 0
       THEN /\ stdout' = stdout \o
                  << Msg("Error: gTTS requires non-empty text to process."),
                     Msg("File: "), FileName,
                     Msg("Line number: "), LineNo(num_rows) >>
            /\ SysExit
       ELSE /\ pc' = "mkdir"
            /\ UNCHANGED << stdout, error, exitStatus >>
    /\ UNCHANGED << runs, phrase_file, mode, num_rows, line, phrase, interval,
                    speech, combined, cacheDir, cache, exports, played,
                    outDuration, synthCalls, synthStored, hitSynth, mixVars, concVars >>

\* gen_speech, line 142
MakeCacheDir ==
    /\ pc = "mkdir"
    /\ cacheDir' = TRUE
    /\ pc' = "lookup"
    /\ UNCHANGED << runs, phrase_file, mode, num_rows, line, phrase, interval,
                    speech, combined, cache, stdout, exitStatus, error, exports,
                    played, outDuration, synthCalls, synthStored, hitSynth,
                    mixVars, concVars >>

\* a lookup that ignores the cache file
NeedsSynthesisAlways(text) == TRUE

\* gen_speech, lines 143-144: whether the synthesizer is needed
NeedsSynthesis(text) == cache[text] = "absent"

CacheLookup ==
    /\ pc = "lookup"
    /\ pc' = IF NeedsSynthesis(phrase) THEN "synth" ELSE "load"
    /\ UNCHANGED << runs, phrase_file, mode, num_rows, line, phrase, interval,
                    speech, combined, cacheDir, cache, stdout, exitStatus,
                    error, exports, played, outDuration, synthCalls,
                    synthStored, hitSynth, mixVars, concVars >>

\* gen_speech, lines 145-146: gTTS(phrase) and speech.save(file).  The call
\* stores the whole clip, or fails before the file is created, or fails
\* after the file was opened for writing.
Synthesize ==
    /\ pc = "synth"
    /\ synthCalls' = [synthCalls EXCEPT ![phrase] = @ + 1]
    /\ hitSynth' = (hitSynth \/ cache[phrase] # "absent")
    /\ \/ /\ cache' = [cache EXCEPT ![phrase] = "whole"]
          /\ synthStored' = [synthStored EXCEPT ![phrase] = @ + 1]
          /\ pc' = "load"
          /\ UNCHANGED << error, exitStatus >>
       \/ /\ Raise("SynthesisError")
          /\ UNCHANGED << cache, synthStored >>
       \/ /\ cache' = [cache EXCEPT ![phrase] = "partial"]
          /\ synthStored' = [synthStored EXCEPT ![phrase] = @ + 1]
          /\ Raise("SynthesisError")
    /\ UNCHANGED << runs, phrase_file, mode, num_rows, line, phrase, interval,
                    speech, combined, cacheDir, stdout, exports, played,
                    outDuration, mixVars, concVars >>

\* What AudioSegment.from_file returns for a cache file it can decode.
Stored(text, content) ==
    IF content = "whole" THEN Clip(text) ELSE PartialClip(text)

\* gen_speech, line 147: a file cut short decodes to what it holds or fails
\* to decode.
LoadClip ==
    /\ pc = "load"
    /\ \/ /\ cache[phrase] \in {"whole", "partial"}
          /\ speech' = Stored(phrase, cache[phrase])
          /\ pc' = "append"
          /\ UNCHANGED << error, exitStatus >>
       \/ /\ cache[phrase] = "partial"
          /\ Raise("CouldntDecodeError")
          /\ UNCHANGED speech
    /\ UNCHANGED << runs, phrase_file, mode, num_rows, line, phrase, interval,
                    combined, cacheDir, cache, stdout, exports, played,
                    outDuration, synthCalls, synthStored, hitSynth, mixVars, concVars >>

\* the operands of += the wrong way round
AddSegmentInFront(timeline, segment) == segment \o timeline

\* gen_speech, lines 148 and 150: combined += segment
AddSegment(timeline, segment) == timeline \o segment

\* gen_speech, line 148
AppendSpeech ==
    /\ pc = "append"
    /\ combined' = AddSegment(combined, speech)
    /\ pc' = "silence"
    /\ UNCHANGED << runs, phrase_file, mode, num_rows, line, phrase, interval,
                    speech, cacheDir, cache, stdout, exitStatus, error, exports,
                    played, outDuration, synthCalls, synthStored, hitSynth,
                    mixVars, concVars >>

\* the pause taken as milliseconds
SilenceForUnscaled(text) == Silent(IntParse(text).val)

\* gen_speech, line 149: the silence that follows a phrase
SilenceFor(text) == Silent(MsPerSecond * IntParse(text).val)

\* gen_speech, lines 149-150
AppendSilence ==
    /\ pc = "silence"
    /\ IF IntParse(interval).ok
       THEN /\ combined' = AddSegment(combined, SilenceFor(interval))
            /\ pc' = "loop"
            /\ UNCHANGED << error, exitStatus >>
       ELSE /\ Raise("ValueError")
            /\ UNCHANGED combined
    /\ UNCHANGED << runs, phrase_file, mode, num_rows, line, phrase, interval,
                    speech, cacheDir, cache, stdout, exports, played,
                    outDuration, synthCalls, synthStored, hitSynth, mixVars, concVars >>

\* a loop that stops one line early
LoopDoneEarly == num_rows + 1 >= Len(phrase_file)

\* gen_speech, line 122: every line has been taken
LoopDone == num_rows >= Len(phrase_file)

\* gen_speech, lines 122 and 152-153: the loop is over
GenReturn ==
    /\ pc = "loop"
    /\ LoopDone
    /\ pc' = "returned"
    /\ UNCHANGED << runs, phrase_file, mode, num_rows, line, phrase, interval,
                    speech, combined, cacheDir, cache, stdout, exitStatus,
                    error, exports, played, outDuration, synthCalls,
                    synthStored, hitSynth, mixVars, concVars >>

\* main, lines 170-173
MainMix ==
    /\ pc = "returned"
    /\ mode = "mix"
    /\ \/ /\ Raise("CouldntDecodeError")      \* the sound file is no .wav
          /\ UNCHANGED << exports, outDuration >>
       \/ \E d \in BgDurations, atten \in Attenuations :
            LET bkgnd == Background(d) IN
            IF MixRaises(combined, bkgnd)
            THEN /\ Raise("ZeroDivisionError")
                 /\ UNCHANGED << exports, outDuration >>
            ELSE /\ exports' = exports + 1
                 /\ outDuration' = MixedDuration(
                        MixResult(combined, bkgnd, atten, DefaultFadeIn,
                                  DefaultFadeOut))
                 /\ pc' = "exported"
                 /\ UNCHANGED << error, exitStatus >>
    /\ UNCHANGED << runs, phrase_file, mode, num_rows, line, phrase, interval,
                    speech, combined, cacheDir, cache, stdout, played,
                    synthCalls, synthStored, hitSynth, mixVars, concVars >>

\* main, lines 174-175
MainPlain ==
    /\ pc = "returned"
    /\ mode = "plain"
    /\ exports' = exports + 1
    /\ outDuration' = Duration(combined)
    /\ pc' = "exported"
    /\ UNCHANGED << runs, phrase_file, mode, num_rows, line, phrase, interval,
                    speech, combined, cacheDir, cache, stdout, exitStatus,
                    error, played, synthCalls, synthStored, hitSynth, mixVars, concVars >>

\* main, lines 177-178 and the normal end of the process
MainPlay ==
    /\ pc = "exported"
    /\ \E play \in BOOLEAN : played' = play
    /\ pc' = "done"
    /\ exitStatus' = 0
    /\ UNCHANGED << runs, phrase_file, mode, num_rows, line, phrase, interval,
                    speech, combined, cacheDir, cache, stdout, error, exports,
                    outDuration, synthCalls, synthStored, hitSynth, mixVars, concVars >>

Next ==
    \/ StartRun \/ GenOpen \/ ParseLine \/ CheckPhrase \/ MakeCacheDir
    \/ CacheLookup \/ Synthesize \/ LoadClip \/ AppendSpeech \/ AppendSilence
    \/ GenReturn \/ MainMix \/ MainPlain \/ MainPlay

Spec == Init /\ [][Next]_vars

----------------------------------------------------------------------------
(* mix on its own: every pair of lengths up to MaxDur *)
Foreground(d) ==
    IF d <= 0 THEN << >> ELSE << Chunk("clip", T1("a"), 0, d) >>

InitMix ==
    /\ MainIdle
    /\ cacheDir = FALSE
    /\ cache = [t \in PhraseTexts |-> "absent"]
    /\ ConcIdle
    /\ mixpc = "called"
    /\ segment1 \in { Foreground(d) : d \in 0..MaxDur }
    /\ segment2 \in { Background(d) : d \in 0..MaxDur }
    /\ seg2_atten \in Attenuations
    /\ times = 0
    /\ segment2_normalized = << >>
    /\ mixed = NoMix

\* mix, lines 96-104
MixNormalize ==
    /\ mixpc = "called"
    /\ IF MixRaises(segment1, segment2)
       THEN /\ mixpc' = "raised"
            /\ UNCHANGED << times, segment2_normalized >>
       ELSE /\ times' = IF MixLoops(segment1, segment2)
                        THEN MixTimes(Duration(segment1), Duration(segment2))
                        ELSE 0
            /\ segment2_normalized' = MixNormalized(segment1, segment2)
            /\ mixpc' = "normalized"
    /\ UNCHANGED << mainVars, concVars, segment1, segment2, seg2_atten, mixed >>

\* mix, lines 106-108
MixOverlay ==
    /\ mixpc = "normalized"
    /\ mixed' = Overlay(segment1,
                        Processed(segment2_normalized, seg2_atten,
                                  DefaultFadeIn, DefaultFadeOut))
    /\ mixpc' = "returned"
    /\ UNCHANGED << mainVars, concVars, segment1, segment2, seg2_atten, times,
                    segment2_normalized >>

NextMix == MixNormalize \/ MixOverlay

SpecMix == InitMix /\ [][NextMix]_vars

----------------------------------------------------------------------------
(* Two instances in one working directory, lines 142-147 of each *)

\* the directory as earlier runs can have left it
InitConc ==
    /\ MainIdle
    /\ MixIdle
    /\ cacheDir \in BOOLEAN
    /\ cache \in [PhraseTexts -> {"absent", "whole"}]
    /\ (\E t \in PhraseTexts : cache[t] # "absent") => cacheDir
    /\ cpc = [p \in Procs |-> "dircheck"]
    /\ cphrase \in [Procs -> PhraseTexts]
    /\ cspeech = [p \in Procs |-> "none"]
    /\ cerror = [p \in Procs |-> "none"]

\* line 142, the condition: Path(...).exists()
ConcDirCheck(p) ==
    /\ cpc[p] = "dircheck"
    /\ cpc' = [cpc EXCEPT ![p] = IF cacheDir THEN "lookup" ELSE "mkdir"]
    /\ UNCHANGED << mainVars, mixVars, cphrase, cspeech, cerror >>

\* line 142, Path.mkdir: FileExistsError when the directory is there by now
ConcMkdir(p) ==
    /\ cpc[p] = "mkdir"
    /\ IF cacheDir
       THEN /\ cpc' = [cpc EXCEPT ![p] = "failed"]
            /\ cerror' = [cerror EXCEPT ![p] = "FileExistsError"]
            /\ UNCHANGED cacheDir
       ELSE /\ cpc' = [cpc EXCEPT ![p] = "lookup"]
            /\ cacheDir' = TRUE
            /\ UNCHANGED cerror
    /\ UNCHANGED << runs, pc, phrase_file, mode, num_rows, line, phrase,
                    interval, speech, combined, cache, stdout, exitStatus,
                    error, exports, played, outDuration, synthCalls,
                    synthStored, hitSynth, mixVars, cphrase, cspeech >>

\* lines 143-144
ConcLookup(p) ==
    /\ cpc[p] = "lookup"
    /\ cpc' = [cpc EXCEPT ![p] = IF NeedsSynthesis(cphrase[p])
                                  THEN "synth" ELSE "load"]
    /\ UNCHANGED << mainVars, mixVars, cphrase, cspeech, cerror >>

\* lines 145-146: speech.save(file) opens the file for writing (it now exists
\* and is cut to length 0) ...
ConcSaveOpen(p) ==
    /\ cpc[p] = "synth"
    /\ cache' = [cache EXCEPT ![cphrase[p]] = "partial"]
    /\ cpc' = [cpc EXCEPT ![p] = "saving"]
    /\ UNCHANGED << runs, pc, phrase_file, mode, num_rows, line, phrase,
                    interval, speech, combined, cacheDir, stdout, exitStatus,
                    error, exports, played, outDuration, synthCalls,
                    synthStored, hitSynth, mixVars, cphrase, cspeech, cerror >>

\* ... and then writes the clip into it
ConcSaveWrite(p) ==
    /\ cpc[p] = "saving"
    /\ cache' = [cache EXCEPT ![cphrase[p]] = "whole"]
    /\ cpc' = [cpc EXCEPT ![p] = "load"]
    /\ UNCHANGED << runs, pc, phrase_file, mode, num_rows, line, phrase,
                    interval, speech, combined, cacheDir, stdout, exitStatus,
                    error, exports, played, outDuration, synthCalls,
                    synthStored, hitSynth, mixVars, cphrase, cspeech, cerror >>

\* line 147
ConcLoad(p) ==
    /\ cpc[p] = "load"
    /\ \/ /\ cache[cphrase[p]] \in {"whole", "partial"}
          /\ cspeech' = [cspeech EXCEPT ![p] = cache[cphrase[p]]]
          /\ cpc' = [cpc EXCEPT ![p] = "loaded"]
          /\ UNCHANGED cerror
       \/ /\ cache[cphrase[p]] = "partial"
          /\ cerror' = [cerror EXCEPT ![p] = "CouldntDecodeError"]
          /\ cpc' = [cpc EXCEPT ![p] = "failed"]
          /\ UNCHANGED cspeech
    /\ UNCHANGED << mainVars, mixVars, cphrase >>

NextConc ==
    \E p \in Procs :
        \/ ConcDirCheck(p) \/ ConcMkdir(p) \/ ConcLookup(p)
        \/ ConcSaveOpen(p) \/ ConcSaveWrite(p) \/ ConcLoad(p)

SpecConc == InitConc /\ [][NextConc]_vars

----------------------------------------------------------------------------
(* The statements about the program *)

FieldsOf(l) == Split(l, ";")
IsRecord(l) == Len(FieldsOf(l)) = 2 /\ FieldsOf(l)[1] # << >>

IsIntegerText(t) ==
    LET u == Strip(t) IN u # << >> /\ \A i \in 1..Len(u) : u[i] \in Digits

IsDecimalText(t) ==
    LET u == Strip(t) IN
    /\ \A i \in 1..Len(u) : u[i] \in Digits \cup {"."}
    /\ \E i \in 1..Len(u) : u[i] \in Digits
    /\ Cardinality({ i \in 1..Len(u) : u[i] = "." }) <= 1

RECURSIVE Pow10(_)
Pow10(n) == IF n <= 0 THEN 1 ELSE 10 * Pow10(n - 1)

\* pauseSeconds * 1000 of a decimal text with at most three decimals
PauseMs(t) ==
    LET u == Strip(t)
        parts == Split(u, ".")
        frac == IF Len(parts) = 2 THEN parts[2] ELSE << >>
    IN  DecimalValue(parts[1]) * 1000
          + DecimalValue(frac) * Pow10(3 - Len(frac))

ValidFile(f) ==
    \A i \in 1..Len(f) : IsRecord(f[i]) /\ IsDecimalText(FieldsOf(f[i])[2])
IntegerFile(f) ==
    \A i \in 1..Len(f) : IsRecord(f[i]) /\ IsIntegerText(FieldsOf(f[i])[2])

\* the clip the cache directory holds for the phrase of a line
ClipOfLine(l) == Stored(FieldsOf(l)[1], cache[FieldsOf(l)[1]])

\* clip(phrase_1), silence(pause_1), ..., clip(phrase_k), silence(pause_k)
RECURSIVE ExpectedTimeline(_)
ExpectedTimeline(k) ==
    IF k <= 0 THEN << >>
    ELSE ExpectedTimeline(k - 1) \o ClipOfLine(phrase_file[k])
           \o Silent(PauseMs(FieldsOf(phrase_file[k])[2]))

RECURSIVE ExpectedMs(_)
ExpectedMs(k) ==
    IF k <= 0 THEN 0
    ELSE ExpectedMs(k - 1) + Duration(ClipOfLine(phrase_file[k]))
           + PauseMs(FieldsOf(phrase_file[k])[2])

IsPrefix(a, b) == Len(a) <= Len(b) /\ SubSeq(b, 1, Len(a)) = a

GenReturned == pc \in {"returned", "exported", "done"}

\* C1 as stated: for every file of records phrase;pause with a non-empty
\* phrase and an integer or decimal pause, gen_speech meets no parse or
\* conversion error, and the timeline it returns lasts the sum of the clips'
\* durations plus pauseSeconds * 1000 per line.
C1_AsStated ==
    ValidFile(phrase_file) =>
        /\ error # "ValueError"
        /\ stdout = << >>
        /\ GenReturned => Duration(combined) = ExpectedMs(Len(phrase_file))

\* C1 amended: the same for files whose pauses are non-negative integers.
C1_DurationIsSum ==
    IntegerFile(phrase_file) =>
        /\ error # "ValueError"
        /\ stdout = << >>
        /\ GenReturned => Duration(combined) = ExpectedMs(Len(phrase_file))

C1_Witness ==
    /\ pc = "returned"
    /\ IntegerFile(phrase_file)
    /\ Len(phrase_file) >= 2
    /\ Duration(combined) > Duration(ClipOfLine(phrase_file[1]))
                             + Duration(ClipOfLine(phrase_file[2]))

\* C2: mix never fails, and the segment it returns is exactly as long as
\* the foreground, whatever the length of the background.
C2_MixKeepsForegroundLength ==
    /\ mixpc # "raised"
    /\ mixpc = "returned" => MixedDuration(mixed) = Duration(segment1)

\* C3 as stated: the synthesizer is invoked at most once per distinct phrase
\* text, within a run and across runs.
C3_AsStated == \A t \in PhraseTexts : synthCalls[t] <= 1

C3_State ==
    /\ \A t \in PhraseTexts : synthStored[t] <= 1
    /\ ~hitSynth
    /\ pc \in {"append", "silence"} => speech = Stored(phrase, cache[phrase])

C3_FileKept ==
    \A t \in PhraseTexts : cache[t] # "absent" => cache'[t] = cache[t]

\* C3 amended: the synthesizer is invoked only while no cache file exists for
\* the phrase, so at most one invocation per text creates the file; once the
\* file exists it is never rewritten and every clip loaded for the text is
\* the file's content.
C3_SynthesizedOnce == [] C3_State /\ [][C3_FileKept]_vars

C3_Witness ==
    /\ runs >= 2
    /\ pc = "append"
    /\ num_rows = 2
    /\ synthCalls[phrase] = 1
    /\ cache[phrase] = "whole"
    /\ phrase_file[1] = LineA1 /\ phrase_file[2] = LineA2

C4_State ==
    CASE pc \in {"check", "mkdir", "lookup", "synth", "load", "append"} ->
            combined = ExpectedTimeline(num_rows - 1)
      [] pc = "silence" ->
            /\ line = phrase_file[num_rows]
            /\ combined = ExpectedTimeline(num_rows - 1) \o ClipOfLine(line)
      [] pc \in {"loop", "returned", "exported", "done"} ->
            combined = ExpectedTimeline(num_rows)
      [] OTHER -> TRUE

C4_Grows ==
    pc \notin {"idle", "done", "exited"} => IsPrefix(combined, combined')

\* C4: the timeline is clip(phrase_1), silence(pause_1), clip(phrase_2), ...
\* in line order; a line is looked up, synthesized or loaded only when all
\* lines before it are appended in full; the timeline only grows.
C4_TimelineInOrder == [] C4_State /\ [][C4_Grows]_vars

C4_Witness ==
    /\ pc = "returned"
    /\ phrase_file = << LineB0, LineA2 >>
    /\ Len(combined) = 3

\* the run ended at a line with a wrong field count (a blank line aside)
MalformedExit ==
    /\ pc = "exited" /\ error = "SystemExit"
    /\ num_rows >= 1 /\ Len(FieldsOf(line)) # 2
    /\ line # LineBlank

\* C5: a line that does not split into two fields ends the run with a report
\* of the line's number and its raw content, and nothing is exported.
C5_MalformedReported ==
    MalformedExit =>
        /\ \E i \in 1..Len(stdout) : stdout[i] = RawLine(line)
        /\ \E i \in 1..Len(stdout) : stdout[i] = LineNo(num_rows)
        /\ exports = 0

\* C6: a run that ends in a parse failure (wrong field count, empty phrase)
\* or on a missing file ends with a non-zero exit status, and the failing
\* line has not been synthesized or loaded.
C6_FailureExitsNonZero ==
    (pc = "exited" /\ error = "SystemExit" /\ line # LineBlank) =>
        /\ exitStatus # 0
        /\ combined = ExpectedTimeline(num_rows - 1)

\* the number of records a file starts with
RECURSIVE RecordCount(_)
RecordCount(f) ==
    IF f = << >> \/ ~IsRecord(f[1]) THEN 0 ELSE 1 + RecordCount(Tail(f))

TrailingBlanks(f) ==
    /\ RecordCount(f) < Len(f)
    /\ IntegerFile(SubSeq(f, 1, RecordCount(f)))
    /\ \A i \in (RecordCount(f) + 1)..Len(f) : f[i] = LineBlank

\* C7: records followed by blank lines: no blank line is reported as a
\* malformed record, the run goes through, and the timeline is that of the
\* records alone.
C7_BlankLinesSkipped ==
    TrailingBlanks(phrase_file) =>
        /\ \A i \in 1..Len(stdout) : stdout[i].what # "rawline"
        /\ GenReturned =>
              combined = ExpectedTimeline(RecordCount(phrase_file))

\* C8: at most one export per run, only after every line of the file has
\* been parsed, fetched and appended; a run that fails exports nothing and
\* plays nothing.
C8_AllOrNothing ==
    /\ exports <= 1
    /\ exports = 1 =>
          /\ pc \in {"exported", "done"} /\ error = "none"
          /\ num_rows = Len(phrase_file)
          /\ IntegerFile(phrase_file)
          /\ combined = ExpectedTimeline(Len(phrase_file))
    /\ pc = "exited" => exports = 0 /\ ~played /\ outDuration = -1
    /\ played => exports = 1

C8_Witness ==
    /\ pc = "done" /\ exports = 1 /\ played
    /\ Len(phrase_file) >= 2
    /\ \E t \in PhraseTexts : synthCalls[t] > synthStored[t]

\* C9: once mix is past lines 96-104 the normalized background is exactly as
\* long as the foreground; a shorter background was repeated ceil(D_f / D_b)
\* times and cut, and starts with the whole original background; a
\* background that is long enough was not repeated, only cut.
C9_BackgroundNormalized ==
    mixpc \in {"normalized", "returned", "raised"} =>
        /\ Duration(segment2_normalized) = Duration(segment1)
        /\ IF Duration(segment2) < Duration(segment1)
           THEN /\ times * Duration(segment2) >= Duration(segment1)
                /\ (times - 1) * Duration(segment2) < Duration(segment1)
                /\ segment2_normalized =
                       Take(Repeat(segment2, times), Duration(segment1))
                /\ Take(segment2_normalized, Duration(segment2)) = segment2
           ELSE /\ times = 0
                /\ segment2_normalized = Take(segment2, Duration(segment1))

\* C10: of two instances on one cache directory neither loads a cache file
\* that is not whole, and neither fails on the directory's creation or on
\* the other's write.
C10_NoCorruptLoad ==
    \A p \in Procs :
        /\ cspeech[p] # "partial"
        /\ cerror[p] \notin {"FileExistsError", "CouldntDecodeError"}

====
